---- MODULE Spec2Model ----
(***************************************************************************)
(* The AT-SPI Text interface of GtkAtspiContext (gtk/a11y/gtkatspitext.c). *)
(* A D-Bus method call or property read on the Text interface is           *)
(* translated into calls of the GtkAccessibleText capability of the        *)
(* widget and the result is marshalled into the reply.                     *)
(*                                                                         *)
(* Strings are sequences of UTF-8 bytes, the widget's text is a sequence   *)
(* of code points.  A pointer that may be NULL is a sequence of length at  *)
(* most one: <<>> is NULL, <<x>> points to x.                              *)
(***************************************************************************)
EXTENDS Integers, Sequences, FiniteSets, TLC

VARIABLES text, build, invocation, replies, calls, aborted, propRead

vars == <<text, build, invocation, replies, calls, aborted, propRead>>

(* ---------------------------- bounds ----------------------------------- *)

MaxLen == 2
MaxSel == 2
MaxAttrs == 2

(* ------------------------ C integer widths ----------------------------- *)

\* int and unsigned int are modelled 16 bits wide (the model checker's own
\* integers are 32 bits wide and cannot hold 2^32 - 1): G_MAXUINT is the
\* largest unsigned int and G_MAXINT the largest int of that width, and every
\* conversion between the two wraps at that width
G_MAXUINT == 65535
G_MAXINT == 32767

\* int -> unsigned int (an int argument passed for an unsigned parameter)
ToUint(i) == i % (G_MAXUINT + 1)

\* unsigned int -> int (an unsigned value marshalled as "i")
ToInt(u) == IF u > G_MAXINT THEN u - (G_MAXUINT + 1) ELSE u

MAX(a, b) == IF a > b THEN a ELSE b

MIN(a, b) == IF a < b THEN a ELSE b

(* ------------------------------ UTF-8 ---------------------------------- *)

\* the code points the widget's text is made of: 'a' and the euro sign
Chars == {97, 8364}

Utf8Encode(cp) ==
  IF cp < 128 THEN <<cp>>
  ELSE IF cp < 2048 THEN <<192 + (cp \div 64), 128 + (cp % 64)>>
  ELSE <<224 + (cp \div 4096), 128 + ((cp \div 64) % 64), 128 + (cp % 64)>>

RECURSIVE Utf8String(_)
Utf8String(cps) ==
  IF cps = <<>> THEN <<>> ELSE Utf8Encode(Head(cps)) \o Utf8String(Tail(cps))

IsContinuation(byte) == byte >= 128 /\ byte < 192

\* g_utf8_strlen (str, -1): the number of characters, not of bytes
RECURSIVE g_utf8_strlen(_)
g_utf8_strlen(str) ==
  IF str = <<>> THEN 0
  ELSE (IF IsContinuation(Head(str)) THEN 0 ELSE 1) + g_utf8_strlen(Tail(str))

RECURSIVE SkipContinuation(_)
SkipContinuation(str) ==
  IF str # <<>> /\ IsContinuation(Head(str)) THEN SkipContinuation(Tail(str)) ELSE str

\* g_utf8_offset_to_pointer (str, offset), offset >= 0 and within the string
RECURSIVE g_utf8_offset_to_pointer(_, _)
g_utf8_offset_to_pointer(str, offset) ==
  IF offset = 0 \/ str = <<>> THEN str
  ELSE g_utf8_offset_to_pointer(SkipContinuation(Tail(str)), offset - 1)

\* g_utf8_get_char (p): the code point at p; 0 at the terminating NUL
g_utf8_get_char(p) ==
  IF p = <<>> THEN 0
  ELSE IF p[1] < 128 THEN p[1]
  ELSE IF p[1] < 224 THEN (p[1] - 192) * 64 + (p[2] - 128)
  ELSE (p[1] - 224) * 4096 + (p[2] - 128) * 64 + (p[3] - 128)

(* ------------------------- the wire: replies --------------------------- *)

NoDict == <<>>

ReturnValue(s, x, y, d) ==
  [kind |-> "value", code |-> "", str |-> s, i1 |-> x, i2 |-> y, dict |-> d]

ReturnError(c) ==
  [kind |-> "error", code |-> c, str |-> <<>>, i1 |-> 0, i2 |-> 0, dict |-> NoDict]

\* the parameters of a call: two integers (offset, end, granularity, num) and a name
Invocation(m, x, y, n) == [method |-> m, arg1 |-> x, arg2 |-> y, name |-> n]

Call(o, x, y, g) == [op |-> o, arg1 |-> x, arg2 |-> y, gran |-> g]

\* what one run of the handler leaves behind
Outcome(rs, cs, dead) == [replies |-> rs, calls |-> cs, aborted |-> dead]

(* ------------------ the widget's accessible text ----------------------- *)

AttrNames == {"weight", "style"}

AttrValue(name) == IF name = "weight" THEN "bold" ELSE "italic"

Texts == UNION {[1..n -> Chars] : n \in 0..MaxLen}

\* GtkAccessibleTextRange: start and length, in characters
Ranges == [start : 0..1, length : 0..1]

Selections == UNION {[1..n -> Ranges] : n \in 0..MaxSel}

Runs == [name : AttrNames, start : 0..1, length : 1..2]

Attributes == UNION {[1..n -> Runs] : n \in 0..MaxAttrs}

NULL == <<>>

\* gtk_accessible_text_get_caret_position
gtk_accessible_text_get_caret_position(t) == t.caret

\* gtk_accessible_text_get_contents: the slice [start, end) of the contents as
\* UTF-8, up to the end of the contents when end is past it; NULL when end < start
gtk_accessible_text_get_contents(t, start, end) ==
  IF end < start THEN NULL
  ELSE <<Utf8String(SubSeq(t.contents, start + 1, MIN(end, Len(t.contents))))>>

\* gtk_accessible_text_get_contents_at: the unit of the given granularity around
\* offset and its bounds; NULL when offset is not inside the contents.  The
\* contents hold no word, sentence or line break, so every unit larger than a
\* character is the whole contents.
gtk_accessible_text_get_contents_at(t, offset, granularity) ==
  IF offset >= Len(t.contents)
    THEN [bytes |-> NULL, start |-> 0, end |-> 0]
  ELSE IF granularity = "GTK_ACCESSIBLE_TEXT_GRANULARITY_CHARACTER"
    THEN [bytes |-> <<Utf8Encode(t.contents[offset + 1])>>,
          start |-> offset, end |-> offset + 1]
  ELSE [bytes |-> <<Utf8String(t.contents)>>, start |-> 0, end |-> Len(t.contents)]

Covers(run, offset) == run.start <= offset /\ offset < run.start + run.length

\* gtk_accessible_text_get_attributes: the attribute runs that cover offset, in
\* the widget's order; an implementation with nothing to report either leaves
\* the arrays NULL or returns empty NULL-terminated arrays
gtk_accessible_text_get_attributes(t, offset) ==
  LET runs == SelectSeq(t.attrs, LAMBDA r : Covers(r, offset))
      none == runs = <<>> /\ t.nullOnEmpty
  IN [n_ranges |-> Len(runs),
      ranges   |-> [i \in 1..Len(runs) |-> [start |-> runs[i].start, length |-> runs[i].length]],
      names    |-> IF none THEN NULL ELSE <<[i \in 1..Len(runs) |-> runs[i].name]>>,
      values   |-> IF none THEN NULL ELSE <<[i \in 1..Len(runs) |-> AttrValue(runs[i].name)]>>]

\* gtk_accessible_text_get_selection
gtk_accessible_text_get_selection(t) ==
  [n_ranges |-> Len(t.selection), ranges |-> t.selection]

(* ---------------------- atspi_granularity_to_gtk ----------------------- *)

ATSPI_TEXT_GRANULARITY_CHAR == 0
ATSPI_TEXT_GRANULARITY_WORD == 1
ATSPI_TEXT_GRANULARITY_SENTENCE == 2
ATSPI_TEXT_GRANULARITY_LINE == 3
ATSPI_TEXT_GRANULARITY_PARAGRAPH == 4

\* the default branch, g_assert_not_reached (): the process is terminated
AssertNotReached == "g_assert_not_reached"

\* the switch with the LINE case returning PARAGRAPH
atspi_granularity_to_gtk_LineAsParagraph(granularity) ==
  CASE granularity = ATSPI_TEXT_GRANULARITY_CHAR -> "GTK_ACCESSIBLE_TEXT_GRANULARITY_CHARACTER"
    [] granularity = ATSPI_TEXT_GRANULARITY_WORD -> "GTK_ACCESSIBLE_TEXT_GRANULARITY_WORD"
    [] granularity = ATSPI_TEXT_GRANULARITY_SENTENCE -> "GTK_ACCESSIBLE_TEXT_GRANULARITY_SENTENCE"
    [] granularity = ATSPI_TEXT_GRANULARITY_LINE -> "GTK_ACCESSIBLE_TEXT_GRANULARITY_PARAGRAPH"
    [] granularity = ATSPI_TEXT_GRANULARITY_PARAGRAPH -> "GTK_ACCESSIBLE_TEXT_GRANULARITY_PARAGRAPH"
    [] OTHER -> AssertNotReached

atspi_granularity_to_gtk(granularity) ==
  CASE granularity = ATSPI_TEXT_GRANULARITY_CHAR -> "GTK_ACCESSIBLE_TEXT_GRANULARITY_CHARACTER"
    [] granularity = ATSPI_TEXT_GRANULARITY_WORD -> "GTK_ACCESSIBLE_TEXT_GRANULARITY_WORD"
    [] granularity = ATSPI_TEXT_GRANULARITY_SENTENCE -> "GTK_ACCESSIBLE_TEXT_GRANULARITY_SENTENCE"
    [] granularity = ATSPI_TEXT_GRANULARITY_LINE -> "GTK_ACCESSIBLE_TEXT_GRANULARITY_LINE"
    [] granularity = ATSPI_TEXT_GRANULARITY_PARAGRAPH -> "GTK_ACCESSIBLE_TEXT_GRANULARITY_PARAGRAPH"
    [] OTHER -> AssertNotReached

(* ------------------ accessible_text_handle_method ---------------------- *)

NOT_SUPPORTED == "G_DBUS_ERROR_NOT_SUPPORTED"
INVALID_ARGS == "G_DBUS_ERROR_INVALID_ARGS"

\* g_variant_new ("(s)", NULL): g_variant_new_string refuses NULL and the
\* marshaller substitutes this string
InvalidUtf8 == <<91, 73, 110, 118, 97, 108, 105, 100, 32, 85, 84, 70, 45, 56, 93>>

\* the branches that only return G_DBUS_ERROR_NOT_SUPPORTED
StubMethods ==
  {"SetCaretOffset", "GetTextBeforeOffset", "GetTextAtOffset", "GetTextAfterOffset",
   "GetAttributeRun", "GetDefaultAttributes", "GetDefaultAttributeSet",
   "AddSelection", "RemoveSelection", "SetSelection", "GetCharacterExtents",
   "GetRangeExtents", "GetBoundedRanges", "ScrollSubstringTo", "ScrollSubstringToPoint"}

\* a stub that answers as if the call had succeeded
Unsupported_ReturnsValue(t, bld, inv) ==
  IF inv.method = "SetCaretOffset"
    THEN Outcome(<<ReturnValue(<<>>, 1, 0, NoDict)>>, <<>>, FALSE)
    ELSE Outcome(<<ReturnError(NOT_SUPPORTED)>>, <<>>, FALSE)

Unsupported(t, bld, inv) == Outcome(<<ReturnError(NOT_SUPPORTED)>>, <<>>, FALSE)

GetCaretOffset(t, bld, inv) ==
  LET offset == gtk_accessible_text_get_caret_position(t)
  IN Outcome(<<ReturnValue(<<>>, ToInt(offset), 0, NoDict)>>,
             <<Call("get_caret_position", 0, 0, "")>>, FALSE)

\* GetText with "end <= 0" in place of "end < 0"
GetText_ZeroIsOpenEnded(t, bld, inv) ==
  LET start == ToUint(inv.arg1)
      end == IF inv.arg2 <= 0 THEN G_MAXUINT ELSE inv.arg2
      contents == gtk_accessible_text_get_contents(t, start, end)
      made == <<Call("get_contents", start, end, "")>>
  IN IF contents # NULL
       THEN Outcome(<<ReturnValue(contents[1], 0, 0, NoDict)>>, made, FALSE)
     ELSE IF bld.disableChecks
       THEN Outcome(<<>>, made, TRUE)
     ELSE Outcome(<<ReturnValue(InvalidUtf8, 0, 0, NoDict)>>, made, FALSE)

GetText(t, bld, inv) ==
  LET start == ToUint(inv.arg1)
      end == IF inv.arg2 < 0 THEN G_MAXUINT ELSE inv.arg2
      contents == gtk_accessible_text_get_contents(t, start, end)
      made == <<Call("get_contents", start, end, "")>>
  IN IF contents # NULL
       THEN Outcome(<<ReturnValue(contents[1], 0, 0, NoDict)>>, made, FALSE)
     \* g_bytes_get_data (NULL, NULL): a NULL dereference when the GLib checks
     \* are compiled out, else NULL, which is marshalled as InvalidUtf8
     ELSE IF bld.disableChecks
       THEN Outcome(<<>>, made, TRUE)
     ELSE Outcome(<<ReturnValue(InvalidUtf8, 0, 0, NoDict)>>, made, FALSE)

GetCharacterAtOffset(t, bld, inv) ==
  LET offset == inv.arg1
      start == ToUint(offset)
      end == ToUint(offset + 1)
      textBytes == gtk_accessible_text_get_contents(t, start, end)
      ch == IF textBytes # NULL
              THEN LET str == textBytes[1]
                   IN IF 0 <= offset /\ offset < g_utf8_strlen(str)
                        THEN g_utf8_get_char(g_utf8_offset_to_pointer(str, offset))
                        ELSE 0
              ELSE 0
  IN Outcome(<<ReturnValue(<<>>, ToInt(ch), 0, NoDict)>>,
             <<Call("get_contents", start, end, "")>>, FALSE)

\* GetStringAtOffset answering a missing result with an error
GetStringAtOffset_ErrorOnNull(t, bld, inv) ==
  LET offset == inv.arg1
      granularity == atspi_granularity_to_gtk(inv.arg2)
  IN IF granularity = AssertNotReached
       THEN Outcome(<<>>, <<>>, TRUE)
     ELSE LET got == gtk_accessible_text_get_contents_at(t, ToUint(offset), granularity)
              made == <<Call("get_contents_at", ToUint(offset), 0, granularity)>>
          IN IF got.bytes = NULL
               THEN Outcome(<<ReturnError(INVALID_ARGS)>>, made, FALSE)
               ELSE Outcome(<<ReturnValue(got.bytes[1], ToInt(got.start), ToInt(got.end), NoDict)>>,
                            made, FALSE)

GetStringAtOffset(t, bld, inv) ==
  LET offset == inv.arg1
      granularity == atspi_granularity_to_gtk(inv.arg2)
  IN IF granularity = AssertNotReached
       THEN Outcome(<<>>, <<>>, TRUE)
     ELSE LET got == gtk_accessible_text_get_contents_at(t, ToUint(offset), granularity)
              made == <<Call("get_contents_at", ToUint(offset), 0, granularity)>>
          IN IF got.bytes = NULL
               THEN Outcome(<<ReturnValue(<<>>, -1, -1, NoDict)>>, made, FALSE)
               ELSE Outcome(<<ReturnValue(got.bytes[1], ToInt(got.start), ToInt(got.end), NoDict)>>,
                            made, FALSE)

\* the loop of the GetAttributes branch, from index i with the running start and end
RECURSIVE AttributesLoop(_, _, _, _)
AttributesLoop(ranges, i, start, end) ==
  IF i > Len(ranges) THEN [start |-> start, end |-> end]
  ELSE LET start1 == MAX(start, ranges[i].start)
           end1 == MIN(end, start1 + ranges[i].length)
       IN AttributesLoop(ranges, i + 1, start1, end1)

GetAttributes(t, bld, inv) ==
  LET offset == inv.arg1
      got == gtk_accessible_text_get_attributes(t, ToUint(offset))
      builder == [i \in 1..got.n_ranges |-> <<got.names[1][i], got.values[1][i]>>]
      range == AttributesLoop(got.ranges, 1, 0, G_MAXINT)
  IN Outcome(<<ReturnValue(<<>>, range.start, range.end, builder)>>,
             <<Call("get_attributes", ToUint(offset), 0, "")>>, FALSE)

\* the search of the GetAttributeValue branch: the value of the first name equal to name
RECURSIVE AttributeValueLoop(_, _, _, _)
AttributeValueLoop(names, values, name, i) ==
  IF i > Len(names) THEN ""
  ELSE IF names[i] = name THEN values[i]
  ELSE AttributeValueLoop(names, values, name, i + 1)

\* the value string of a reply, as bytes
Bytes(val) ==
  CASE val = "" -> <<>>
    [] val = "bold" -> <<98, 111, 108, 100>>
    [] val = "italic" -> <<105, 116, 97, 108, 105, 99>>

GetAttributeValue(t, bld, inv) ==
  LET offset == inv.arg1
      got == gtk_accessible_text_get_attributes(t, ToUint(offset))
      made == <<Call("get_attributes", ToUint(offset), 0, "")>>
  IN \* names[0] with names == NULL: a NULL dereference
     IF got.names = NULL
       THEN Outcome(<<>>, made, TRUE)
       ELSE Outcome(<<ReturnValue(Bytes(AttributeValueLoop(got.names[1], got.values[1], inv.name, 1)),
                                  0, 0, NoDict)>>, made, FALSE)

GetNSelections(t, bld, inv) ==
  LET got == gtk_accessible_text_get_selection(t)
  IN Outcome(<<ReturnValue(<<>>, ToInt(got.n_ranges), 0, NoDict)>>,
             <<Call("get_selection", 0, 0, "")>>, FALSE)

\* GetSelection with a bound check that is off by one
GetSelection_OffByOne(t, bld, inv) ==
  LET num == inv.arg1
      got == gtk_accessible_text_get_selection(t)
      made == <<Call("get_selection", 0, 0, "")>>
  IN IF num < 0 \/ num + 1 >= got.n_ranges
       THEN Outcome(<<ReturnError(INVALID_ARGS)>>, made, FALSE)
       ELSE LET start == got.ranges[num + 1].start
                end == start + got.ranges[num + 1].length
            IN Outcome(<<ReturnValue(<<>>, start, end, NoDict)>>, made, FALSE)

GetSelection(t, bld, inv) ==
  LET num == inv.arg1
      got == gtk_accessible_text_get_selection(t)
      made == <<Call("get_selection", 0, 0, "")>>
  IN IF num < 0 \/ num >= got.n_ranges
       THEN Outcome(<<ReturnError(INVALID_ARGS)>>, made, FALSE)
       ELSE LET start == got.ranges[num + 1].start
                end == start + got.ranges[num + 1].length
            IN Outcome(<<ReturnValue(<<>>, start, end, NoDict)>>, made, FALSE)

\* no branch matches the method name: the handler returns without a reply
NoBranch(t, bld, inv) == Outcome(<<>>, <<>>, FALSE)

accessible_text_handle_method(t, bld, inv) ==
  LET m == inv.method
  IN IF m = "GetCaretOffset" THEN GetCaretOffset(t, bld, inv)
     ELSE IF m = "SetCaretOffset" THEN Unsupported(t, bld, inv)
     ELSE IF m = "GetText" THEN GetText(t, bld, inv)
     ELSE IF m \in {"GetTextBeforeOffset", "GetTextAtOffset", "GetTextAfterOffset"}
       THEN Unsupported(t, bld, inv)
     ELSE IF m = "GetCharacterAtOffset" THEN GetCharacterAtOffset(t, bld, inv)
     ELSE IF m = "GetStringAtOffset" THEN GetStringAtOffset(t, bld, inv)
     ELSE IF m = "GetAttributes" THEN GetAttributes(t, bld, inv)
     ELSE IF m = "GetAttributeValue" THEN GetAttributeValue(t, bld, inv)
     ELSE IF m \in {"GetAttributeRun", "GetDefaultAttributes", "GetDefaultAttributeSet"}
       THEN Unsupported(t, bld, inv)
     ELSE IF m = "GetNSelections" THEN GetNSelections(t, bld, inv)
     ELSE IF m = "GetSelection" THEN GetSelection(t, bld, inv)
     ELSE IF m \in {"AddSelection", "RemoveSelection", "SetSelection", "GetCharacterExtents",
                    "GetRangeExtents", "GetBoundedRanges", "ScrollSubstringTo",
                    "ScrollSubstringToPoint"}
       THEN Unsupported(t, bld, inv)
     ELSE NoBranch(t, bld, inv)

(* ------------------- accessible_text_get_property ---------------------- *)

PropertyNames == {"CharacterCount", "CaretOffset", "Version"}

\* CharacterCount counted in bytes
accessible_text_get_property_ByteCount(t, property_name) ==
  IF property_name = "CharacterCount"
    THEN LET contents == gtk_accessible_text_get_contents(t, 0, G_MAXUINT)
             str == IF contents = NULL THEN <<>> ELSE contents[1]
         IN <<ToInt(Len(str))>>
  ELSE IF property_name = "CaretOffset"
    THEN <<ToInt(gtk_accessible_text_get_caret_position(t))>>
  ELSE NULL

\* the GVariant returned, or NULL
accessible_text_get_property(t, property_name) ==
  IF property_name = "CharacterCount"
    THEN LET contents == gtk_accessible_text_get_contents(t, 0, G_MAXUINT)
             str == IF contents = NULL THEN <<>> ELSE contents[1]
             len == g_utf8_strlen(str)
         IN <<ToInt(len)>>
  ELSE IF property_name = "CaretOffset"
    THEN <<ToInt(gtk_accessible_text_get_caret_position(t))>>
  ELSE NULL

(* --------------------------- state machine ----------------------------- *)

Offsets == -1..(MaxLen + 1)

Granularities == ATSPI_TEXT_GRANULARITY_CHAR..(ATSPI_TEXT_GRANULARITY_PARAGRAPH + 1)

\* the D-Bus call that reads a property
PropertiesGet == "org.freedesktop.DBus.Properties.Get"

NoInvocation == Invocation("", 0, 0, "")

TextState(cps, pos, sel, runs, none) ==
  [contents |-> cps, caret |-> pos, selection |-> sel,
   attrs |-> runs, nullOnEmpty |-> none]

\* invocation, replies, calls and propRead describe the last exchange with the
\* widget as it is now; nothing has been exchanged yet
Start(t) ==
  /\ text = t
  /\ build \in [disableChecks : BOOLEAN]
  /\ invocation = NoInvocation
  /\ replies = <<>>
  /\ calls = <<>>
  /\ aborted = FALSE
  /\ propRead = NULL

\* a widget with any contents and caret, no selection and no attributes
Init ==
  \E contents \in Texts : \E caret \in 0..Len(contents) : \E nullOnEmpty \in BOOLEAN :
    Start(TextState(contents, caret, <<>>, <<>>, nullOnEmpty))

\* a widget with any selection
InitSel ==
  \E selection \in Selections :
    Start(TextState(<<97, 8364>>, 0, selection, <<>>, FALSE))

\* a widget with any attribute runs
InitAttr ==
  \E attrs \in Attributes : \E nullOnEmpty \in BOOLEAN :
    Start(TextState(<<97, 8364>>, 0, <<>>, attrs, nullOnEmpty))

\* a handler whose SetCaretOffset branch moves the caret
Dispatch_SetsCaret(inv) ==
  /\ ~aborted
  /\ LET out == accessible_text_handle_method(text, build, inv)
     IN /\ invocation' = inv
        /\ replies' = out.replies
        /\ calls' = out.calls
        /\ aborted' = out.aborted
  /\ propRead' = NULL
  /\ text' = IF inv.method = "SetCaretOffset" THEN [text EXCEPT !.caret = 0] ELSE text
  /\ UNCHANGED build

\* one method call arrives and accessible_text_handle_method runs to its end
Dispatch(inv) ==
  /\ ~aborted
  /\ LET out == accessible_text_handle_method(text, build, inv)
     IN /\ invocation' = inv
        /\ replies' = out.replies
        /\ calls' = out.calls
        /\ aborted' = out.aborted
  /\ propRead' = NULL
  /\ UNCHANGED <<text, build>>

Method_GetCaretOffset == Dispatch(Invocation("GetCaretOffset", 0, 0, ""))

Method_Unsupported == \E m \in StubMethods : Dispatch(Invocation(m, 0, 0, ""))

Method_GetText == \E start \in Offsets : \E end \in Offsets : Dispatch(Invocation("GetText", start, end, ""))

Method_GetCharacterAtOffset == \E offset \in Offsets : Dispatch(Invocation("GetCharacterAtOffset", offset, 0, ""))

Method_GetStringAtOffset ==
  \E offset \in Offsets : \E granularity \in Granularities :
    Dispatch(Invocation("GetStringAtOffset", offset, granularity, ""))

Method_GetAttributes == \E offset \in Offsets : Dispatch(Invocation("GetAttributes", offset, 0, ""))

Method_GetAttributeValue ==
  \E offset \in Offsets : \E name \in AttrNames \cup {"family"} :
    Dispatch(Invocation("GetAttributeValue", offset, 0, name))

Method_GetNSelections == Dispatch(Invocation("GetNSelections", 0, 0, ""))

Method_GetSelection == \E num \in -1..MaxSel : Dispatch(Invocation("GetSelection", num, 0, ""))

\* a method name the handler has no branch for
Method_Other == Dispatch(Invocation("GetOffsetAtPoint", 0, 0, ""))

\* one property read: accessible_text_get_property runs to its end
Property_Get ==
  /\ ~aborted
  /\ \E name \in PropertyNames :
       /\ invocation' = Invocation(PropertiesGet, 0, 0, name)
       /\ propRead' = accessible_text_get_property(text, name)
  /\ replies' = <<>>
  /\ calls' = <<>>
  /\ UNCHANGED <<text, build, aborted>>

\* the widget changes outside the interface (the caret moves); the last
\* exchange no longer describes the widget as it is now
ExternalChange ==
  /\ ~aborted
  /\ \E caret \in 0..Len(text.contents) :
       /\ caret # text.caret
       /\ text' = [text EXCEPT !.caret = caret]
  /\ invocation' = NoInvocation
  /\ replies' = <<>>
  /\ calls' = <<>>
  /\ propRead' = NULL
  /\ UNCHANGED <<build, aborted>>

Next ==
  \/ Method_GetCaretOffset
  \/ Method_Unsupported
  \/ Method_GetText
  \/ Method_GetCharacterAtOffset
  \/ Method_GetStringAtOffset
  \/ Method_GetAttributes
  \/ Method_GetAttributeValue
  \/ Method_GetNSelections
  \/ Method_GetSelection
  \/ Method_Other
  \/ Property_Get
  \/ ExternalChange

\* the selection methods alone
NextSel ==
  \/ Method_GetNSelections
  \/ Method_GetSelection
  \/ ExternalChange

\* the attribute methods alone
NextAttr ==
  \/ Method_GetAttributes
  \/ Method_GetAttributeValue
  \/ ExternalChange

Spec == Init /\ [][Next]_vars

SpecSel == InitSel /\ [][NextSel]_vars

SpecAttr == InitAttr /\ [][NextAttr]_vars

(* ------------------------------ properties ----------------------------- *)

\* the reply of accessible_text_handle_method to a call on the widget as it is now
ReplyTo(inv) == accessible_text_handle_method(text, build, inv).replies[1]

DefinedGranularities ==
  {ATSPI_TEXT_GRANULARITY_CHAR, ATSPI_TEXT_GRANULARITY_WORD, ATSPI_TEXT_GRANULARITY_SENTENCE,
   ATSPI_TEXT_GRANULARITY_LINE, ATSPI_TEXT_GRANULARITY_PARAGRAPH}

RecognisedMethods ==
  StubMethods \cup {"GetCaretOffset", "GetText", "GetCharacterAtOffset", "GetStringAtOffset",
                    "GetAttributes", "GetAttributeValue", "GetNSelections", "GetSelection"}

\* C1: each of the fifteen stubbed methods replies with the error
\* G_DBUS_ERROR_NOT_SUPPORTED, never with a value, in any text state, and
\* calls no operation of the accessible text capability.
C1_StubsNotSupported ==
  invocation.method \in
      {"SetCaretOffset", "GetTextBeforeOffset", "GetTextAtOffset", "GetTextAfterOffset",
       "GetAttributeRun", "GetDefaultAttributes", "GetDefaultAttributeSet", "AddSelection",
       "RemoveSelection", "SetSelection", "GetCharacterExtents", "GetRangeExtents",
       "GetBoundedRanges", "ScrollSubstringTo", "ScrollSubstringToPoint"}
    => /\ replies = <<ReturnError("G_DBUS_ERROR_NOT_SUPPORTED")>>
       /\ calls = <<>>
       /\ ~aborted

C1_Witness ==
  /\ invocation.method = "GetDefaultAttributeSet"
  /\ Len(replies) = 1
  /\ replies[1].kind = "error"
  /\ text.contents # <<>>

\* C2: every call of a recognised method (for GetStringAtOffset, with one of
\* the five defined granularities) completes exactly one reply, whatever the
\* parameters and whatever the capability returns.
C2_ExactlyOneReply ==
  (/\ invocation.method \in RecognisedMethods
   /\ invocation.method = "GetStringAtOffset" => invocation.arg2 \in DefinedGranularities)
    => Len(replies) = 1

\* C3: GetSelection(num) replies with G_DBUS_ERROR_INVALID_ARGS exactly when
\* num < 0 or num >= n, n being what GetNSelections reports in the same text
\* state, and otherwise with (start, start + length) of selection range num;
\* with no selection every num is rejected.
C3_GetSelection ==
  invocation.method = "GetSelection" =>
    LET num == invocation.arg1
        n == ReplyTo(Invocation("GetNSelections", 0, 0, "")).i1
        rejected == num < 0 \/ num >= n
    IN /\ Len(replies) = 1
       /\ (replies[1] = ReturnError("G_DBUS_ERROR_INVALID_ARGS")) <=> rejected
       /\ ~rejected =>
            replies[1] = ReturnValue(<<>>, text.selection[num + 1].start,
                                     text.selection[num + 1].start + text.selection[num + 1].length,
                                     NoDict)
       /\ text.selection = <<>> => replies[1].kind = "error"

C3_Witness ==
  /\ invocation.method = "GetSelection"
  /\ invocation.arg1 = 1
  /\ Len(replies) = 1
  /\ replies[1].kind = "value"
  /\ replies[1].i1 = 1
  /\ replies[1].i2 = 2

SetMax(S) == CHOOSE x \in S : \A y \in S : y <= x

SetMin(S) == CHOOSE x \in S : \A y \in S : x <= y

\* C4: GetAttributes(offset) replies with every reported name/value pair in the
\* reported order and with the intersection of the reported ranges: start is
\* the maximum of ranges[i].start, end the minimum of ranges[i].start +
\* ranges[i].length; with nothing reported, the empty dictionary and (0, G_MAXINT).
C4_Intersection ==
  invocation.method = "GetAttributes" =>
    LET got == gtk_accessible_text_get_attributes(text, ToUint(invocation.arg1))
        n == got.n_ranges
        starts == {got.ranges[i].start : i \in 1..n}
        ends == {got.ranges[i].start + got.ranges[i].length : i \in 1..n}
    IN /\ Len(replies) = 1
       /\ replies[1].kind = "value"
       /\ replies[1].dict = [i \in 1..n |-> <<got.names[1][i], got.values[1][i]>>]
       /\ IF n = 0
            THEN replies[1].i1 = 0 /\ replies[1].i2 = G_MAXINT
            ELSE replies[1].i1 = SetMax(starts) /\ replies[1].i2 = SetMin(ends)

C6_GetStringAtOffset ==
  (invocation.method = "GetStringAtOffset" /\ invocation.arg2 \in DefinedGranularities) =>
    LET gran == CASE invocation.arg2 = ATSPI_TEXT_GRANULARITY_CHAR -> "GTK_ACCESSIBLE_TEXT_GRANULARITY_CHARACTER"
                  [] invocation.arg2 = ATSPI_TEXT_GRANULARITY_WORD -> "GTK_ACCESSIBLE_TEXT_GRANULARITY_WORD"
                  [] invocation.arg2 = ATSPI_TEXT_GRANULARITY_SENTENCE -> "GTK_ACCESSIBLE_TEXT_GRANULARITY_SENTENCE"
                  [] invocation.arg2 = ATSPI_TEXT_GRANULARITY_LINE -> "GTK_ACCESSIBLE_TEXT_GRANULARITY_LINE"
                  [] invocation.arg2 = ATSPI_TEXT_GRANULARITY_PARAGRAPH -> "GTK_ACCESSIBLE_TEXT_GRANULARITY_PARAGRAPH"
        got == gtk_accessible_text_get_contents_at(text, ToUint(invocation.arg1), gran)
    IN /\ Len(replies) = 1
       /\ replies[1].kind = "value"
       /\ got.bytes = NULL => replies[1] = ReturnValue(<<>>, -1, -1, NoDict)
       /\ got.bytes # NULL => replies[1] = ReturnValue(got.bytes[1], got.start, got.end, NoDict)

C6_Witness ==
  /\ invocation.method = "GetStringAtOffset"
  /\ invocation.arg2 = ATSPI_TEXT_GRANULARITY_WORD
  /\ text.contents # <<>>
  /\ invocation.arg1 = Len(text.contents)
  /\ replies = <<ReturnValue(<<>>, -1, -1, NoDict)>>

C8_GetCharacterAtOffset ==
  invocation.method = "GetCharacterAtOffset" =>
    LET offset == invocation.arg1
        count == accessible_text_get_property(text, "CharacterCount")[1]
    IN replies = <<ReturnValue(<<>>,
                               IF 0 <= offset /\ offset < count THEN text.contents[offset + 1] ELSE 0,
                               0, NoDict)>>

\* C9: the CharacterCount property is the number of characters of the string
\* GetText(0, -1) returns in the same text state, the CaretOffset property is
\* the value GetCaretOffset returns, and a read of any other property returns NULL.
C9_Properties ==
  invocation.method = PropertiesGet =>
    IF invocation.name = "CharacterCount"
      THEN propRead = <<g_utf8_strlen(ReplyTo(Invocation("GetText", 0, -1, "")).str)>>
    ELSE IF invocation.name = "CaretOffset"
      THEN propRead = <<ReplyTo(Invocation("GetCaretOffset", 0, 0, "")).i1>>
    ELSE propRead = NULL

C9_Witness ==
  /\ invocation.method = PropertiesGet
  /\ invocation.name = "CharacterCount"
  /\ text.contents = <<8364, 97>>
  /\ propRead = <<2>>

\* C10: atspi_granularity_to_gtk maps CHAR, WORD, SENTENCE, LINE and PARAGRAPH
\* one-to-one onto CHARACTER, WORD, SENTENCE, LINE and PARAGRAPH, and its
\* assertion-failure branch is reached exactly when GetStringAtOffset receives
\* any other granularity; then the capability is not called and no reply is sent.
C10_Granularity ==
  invocation.method = "GetStringAtOffset" =>
    LET g == invocation.arg2
    IN IF g \in DefinedGranularities
         THEN /\ ~aborted
              /\ Len(calls) = 1
              /\ calls[1].op = "get_contents_at"
              /\ g = ATSPI_TEXT_GRANULARITY_CHAR <=> calls[1].gran = "GTK_ACCESSIBLE_TEXT_GRANULARITY_CHARACTER"
              /\ g = ATSPI_TEXT_GRANULARITY_WORD <=> calls[1].gran = "GTK_ACCESSIBLE_TEXT_GRANULARITY_WORD"
              /\ g = ATSPI_TEXT_GRANULARITY_SENTENCE <=> calls[1].gran = "GTK_ACCESSIBLE_TEXT_GRANULARITY_SENTENCE"
              /\ g = ATSPI_TEXT_GRANULARITY_LINE <=> calls[1].gran = "GTK_ACCESSIBLE_TEXT_GRANULARITY_LINE"
              /\ g = ATSPI_TEXT_GRANULARITY_PARAGRAPH <=> calls[1].gran = "GTK_ACCESSIBLE_TEXT_GRANULARITY_PARAGRAPH"
         ELSE /\ aborted
              /\ calls = <<>>
              /\ replies = <<>>

C10_Witness ==
  /\ invocation.method = "GetStringAtOffset"
  /\ invocation.arg2 \notin DefinedGranularities
  /\ aborted
  /\ replies = <<>>

====
